---- MODULE Spec2Model ----
(***************************************************************************)
(* A model of the 5G planning genetic algorithm: the cell placement        *)
(* generator (files/helper_funcs/generators_funcs.py), the Cell and Plan   *)
(* objects with the evaluation pipeline (files/objs/cell.py, plan.py) and  *)
(* the crossover operator (files/crossover/crossover.py).                  *)
(*                                                                         *)
(* Distances are kept squared: distance(..) < d is DistSq(..) < d*d for a  *)
(* non-negative d, so every comparison of the code is exact on integers.   *)
(* A Python exception is the field/variable err holding its name.          *)
(***************************************************************************)
EXTENDS Integers, Sequences, FiniteSets, TLC

VARIABLES
    gin,         \* the arguments of the generator call under test
    gout,        \* what generate_cells left behind (result, caller's list, exception)
    popout,      \* what generate_initial_population left behind
    pool,        \* the current pool of Plans
    new_pool,    \* the pool returned by the last crossover call
    xlog,        \* the draws and the outcome of the last crossover call
    olog,        \* the outcome of the last operate call
    generation   \* number of crossover calls made so far

vars == <<gin, gout, popout, pool, new_pool, xlog, olog, generation>>

-----------------------------------------------------------------------------
(* Bounds of the model *)

MaxCoord == 2        \* candidate points lie on the grid 0..MaxCoord x 0..MaxCoord
MaxPoints == 3       \* longest candidate-point list
MaxSep == 2          \* largest minimum separation
MaxNum == 2          \* largest target count
MaxGenerations == 1  \* crossover calls in one behaviour
MaxDraw == 1         \* random numbers are 0..MaxDraw, in units of 1/(MaxDraw + 1)

-----------------------------------------------------------------------------
(* Python values *)

None == -1

NoError == "none"

Min(a, b) == IF a < b THEN a ELSE b

Range(s) == {s[i] : i \in 1..Len(s)}

\* s[b:e] for 0 <= b, 0 <= e
Slice(s, b, e) == SubSeq(s, b + 1, Min(e, Len(s)))

\* list.index(v): the first position holding v, 0 when there is none (ValueError)
Index(s, v) == IF v \in Range(s)
               THEN CHOOSE i \in 1..Len(s) : s[i] = v /\ \A j \in 1..(i - 1) : s[j] # v
               ELSE 0

\* list.pop(i) for a 1-based position i: the list without that element
PopAt(s, i) == SubSeq(s, 1, i - 1) \o SubSeq(s, i + 1, Len(s))

\* the outcomes of np.random.shuffle on s
Shuffles(s) ==
    LET n == Len(s)
        Bij == {f \in [1..n -> 1..n] : \A i, j \in 1..n : f[i] = f[j] => i = j}
    IN {[i \in 1..n |-> s[f[i]]] : f \in Bij}

-----------------------------------------------------------------------------
(* The per-type parameter table (files/consts/constants.py) *)

FIXED_MACRO_COST == 20
MACRO_COST == 10
MICRO_COST == 4
FIXED_MACRO_MIN_USERS == 0
FIXED_MACRO_MAX_USERS == 2
MACRO_MIN_USERS == 1
MACRO_MAX_USERS == 2
MICRO_MIN_USERS == 2
MICRO_MAX_USERS == 3
FIXED_MACRO_RADIUS == 3
MACRO_RADIUS == 3
MICRO_RADIUS == 2
FIXED_MACRO_POWER == 40
MACRO_POWER == 40
MICRO_POWER == 30
FIXED_MACRO_FREQ == 1
MACRO_FREQ == 1
SMALL_CELL_FREQ == 2

properties ==
    [fixed_macro |-> [cost |-> FIXED_MACRO_COST, min_users |-> FIXED_MACRO_MIN_USERS,
                      max_users |-> FIXED_MACRO_MAX_USERS, radius |-> FIXED_MACRO_RADIUS,
                      power |-> FIXED_MACRO_POWER, frequency |-> FIXED_MACRO_FREQ],
     macro       |-> [cost |-> MACRO_COST, min_users |-> MACRO_MIN_USERS,
                      max_users |-> MACRO_MAX_USERS, radius |-> MACRO_RADIUS,
                      power |-> MACRO_POWER, frequency |-> MACRO_FREQ],
     micro       |-> [cost |-> MICRO_COST, min_users |-> MICRO_MIN_USERS,
                      max_users |-> MICRO_MAX_USERS, radius |-> MICRO_RADIUS,
                      power |-> MICRO_POWER, frequency |-> SMALL_CELL_FREQ],
     pico        |-> [cost |-> 5, min_users |-> None, max_users |-> None,
                      radius |-> None, power |-> None, frequency |-> None],
     femto       |-> [cost |-> 1, min_users |-> None, max_users |-> None,
                      radius |-> None, power |-> None, frequency |-> None]]

\* Cell.__init__ and _set_attributes: a cell starts active with no user
Cell(xcoord, ycoord, cell_type) ==
    [xcoord |-> xcoord, ycoord |-> ycoord, cell_type |-> cell_type,
     connected_users |-> <<>>, state |-> TRUE,
     cost |-> properties[cell_type].cost,
     min_users |-> properties[cell_type].min_users,
     max_users |-> properties[cell_type].max_users,
     radius |-> properties[cell_type].radius,
     power |-> properties[cell_type].power,
     frequency |-> properties[cell_type].frequency]

\* User.__init__: a position, the close-cell scratch list, the serving cell
User(x, y) == [xcoord |-> x, ycoord |-> y, close_bss |-> <<>>, connected_bs |-> None]

-----------------------------------------------------------------------------
(* Geometry (files/network/net_funcs.py) *)

\* distance(x1, y1, x2, y2), squared
DistSq(x1, y1, x2, y2) == (x1 - x2) * (x1 - x2) + (y1 - y2) * (y1 - y2)

\* distance(x1, y1, x2, y2) < d, for an integer d
DistanceLess(x1, y1, x2, y2, d) == d > 0 /\ DistSq(x1, y1, x2, y2) < d * d

-----------------------------------------------------------------------------
(* generate_cells *)

\* line 37: the test of one candidate point against one accepted cell
TooClose(cp, c, distance_between_cells) ==
    DistanceLess(cp[1], c.xcoord, cp[2], c.ycoord, distance_between_cells)

\* lines 34-47: the scan of the working copy from position i on.
\* st = [cell_list, candidate_points_list, accepted, err]
RECURSIVE ScanPoints(_, _, _, _, _, _)
ScanPoints(temp, i, st, type_of_cell, distance_between_cells, num_of_cells) ==
    IF i > Len(temp) THEN st
    ELSE
      LET cp == temp[i]
          is_well_positioned ==
              \A k \in 1..Len(st.cell_list) :
                  ~TooClose(cp, st.cell_list[k], distance_between_cells)
          at == Index(st.candidate_points_list, cp)
          appended == Append(st.cell_list, Cell(cp[1], cp[2], type_of_cell))
      IN IF ~is_well_positioned
         THEN IF Len(st.cell_list) >= num_of_cells THEN st
              ELSE ScanPoints(temp, i + 1, st, type_of_cell,
                              distance_between_cells, num_of_cells)
         ELSE IF at = 0
         THEN [st EXCEPT !.cell_list = appended,
                         !.accepted = Append(st.accepted, i),
                         !.err = "ValueError"]
         ELSE LET nx == [st EXCEPT !.cell_list = appended,
                                   !.accepted = Append(st.accepted, i),
                                   !.candidate_points_list =
                                       PopAt(st.candidate_points_list, at)]
              IN IF Len(nx.cell_list) >= num_of_cells THEN nx
                 ELSE ScanPoints(temp, i + 1, nx, type_of_cell,
                                 distance_between_cells, num_of_cells)

\* lines 25-48, on the list as np.random.shuffle left it. accepted lists the
\* positions of the shuffled list that became cells, the seed's first.
generate_cells(shuffled, type_of_cell, distance_between_cells, num_of_cells) ==
    IF shuffled = <<>>
    THEN [cell_list |-> <<>>, candidate_points_list |-> <<>>, accepted |-> <<>>,
          err |-> "IndexError"]
    ELSE LET n == Len(shuffled)
             cell_coords == shuffled[n]
             seeded == [cell_list |-> <<Cell(cell_coords[1], cell_coords[2], type_of_cell)>>,
                        candidate_points_list |-> SubSeq(shuffled, 1, n - 1),
                        accepted |-> <<n>>,
                        err |-> NoError]
         IN ScanPoints(shuffled, 1, seeded, type_of_cell,
                       distance_between_cells, num_of_cells)

-----------------------------------------------------------------------------
(* Plan *)

\* Plan.__init__: the five groups are consecutive slices of the flat cell list;
\* a count of None leaves its group empty and does not advance the slice
Plan(cell_list, users, candidate_points, num_fixed_macro_cells, num_macro_cells, num_micro_cells, num_pico_cells, num_femto_cells) ==
    LET e1 == num_fixed_macro_cells
        e2 == e1 + num_macro_cells
        e3 == IF num_micro_cells # None THEN e2 + num_micro_cells ELSE e2
        e4 == IF num_pico_cells # None THEN e3 + num_pico_cells ELSE e3
        e5 == IF num_femto_cells # None THEN e4 + num_femto_cells ELSE e4
    IN [users |-> users,
        candidate_points |-> candidate_points,
        fixed_macro_cells |-> Slice(cell_list, 0, e1),
        macro_cells |-> Slice(cell_list, e1, e2),
        micro_cells |-> IF num_micro_cells # None THEN Slice(cell_list, e2, e3) ELSE <<>>,
        pico_cells |-> IF num_pico_cells # None THEN Slice(cell_list, e3, e4) ELSE <<>>,
        femto_cells |-> IF num_femto_cells # None THEN Slice(cell_list, e4, e5) ELSE <<>>,
        cost |-> None,
        fitness |-> None,
        connected_users |-> None]

\* Plan.get_cells
get_cells(plan, cells_type) ==
    CASE cells_type = "all" ->
             plan.fixed_macro_cells \o plan.macro_cells \o plan.micro_cells
                 \o plan.pico_cells \o plan.femto_cells
      [] cells_type = "non_fixed" ->
             plan.macro_cells \o plan.micro_cells \o plan.pico_cells \o plan.femto_cells
      [] cells_type = "fixed_macro" -> plan.fixed_macro_cells
      [] cells_type = "macro" -> plan.macro_cells
      [] cells_type = "micro" -> plan.micro_cells
      [] cells_type = "pico" -> plan.pico_cells
      [] cells_type = "femto" -> plan.femto_cells

\* Plan.get_num_cells
get_num_cells(plan, cell_type) == Len(get_cells(plan, cell_type))

-----------------------------------------------------------------------------
(* Plan evaluation.  A user refers to a cell by its position in
   get_cells("all"); the connected users of a cell are positions in
   get_users(). *)

\* the plan with its cells replaced by the flat list cells, group by group
WithCells(plan, cells) ==
    LET n1 == Len(plan.fixed_macro_cells)
        n2 == n1 + Len(plan.macro_cells)
        n3 == n2 + Len(plan.micro_cells)
        n4 == n3 + Len(plan.pico_cells)
    IN [plan EXCEPT !.fixed_macro_cells = SubSeq(cells, 1, n1),
                    !.macro_cells = SubSeq(cells, n1 + 1, n2),
                    !.micro_cells = SubSeq(cells, n2 + 1, n3),
                    !.pico_cells = SubSeq(cells, n3 + 1, n4),
                    !.femto_cells = SubSeq(cells, n4 + 1, Len(cells))]

\* received_power(power, num_bs, dist, frequency, 0, 0), on the squared distance:
\* the signal falls with the distance, the frequency and the number of cells
received_power(power, num_bs, dist_sq, frequency) ==
    power - num_bs - dist_sq * frequency

\* Cell.is_available, for a cell with a maximum
is_available(cell) == Len(cell.connected_users) < cell.max_users

\* plan.py lines 129-130, for a cell with a radius
WithinRadius(user, cell) ==
    DistanceLess(user.xcoord, user.ycoord, cell.xcoord, cell.ycoord, cell.radius)

\* plan.py lines 127-133: the close cells of one user, from cell k on; comparing
\* with a radius or a maximum of None raises TypeError
RECURSIVE CloseCells(_, _, _, _)
CloseCells(cells, user, k, close) ==
    IF k > Len(cells) THEN [close_bss |-> close, err |-> NoError]
    ELSE IF cells[k].radius = None THEN [close_bss |-> close, err |-> "TypeError"]
    ELSE IF ~WithinRadius(user, cells[k]) THEN CloseCells(cells, user, k + 1, close)
    ELSE IF cells[k].max_users = None THEN [close_bss |-> close, err |-> "TypeError"]
    ELSE IF is_available(cells[k]) THEN CloseCells(cells, user, k + 1, Append(close, k))
    ELSE CloseCells(cells, user, k + 1, close)

\* plan.py lines 139-158: the received power of one close cell at the user
PowerAt(plan, cell, user) ==
    received_power(cell.power, get_num_cells(plan, cell.cell_type),
                   DistSq(cell.xcoord, cell.ycoord, user.xcoord, user.ycoord),
                   cell.frequency)

\* plan.py line 160: the tested cell replaces the desired one
Stronger(power2, power1) == power2 > power1

\* plan.py lines 137-161: the tournament over close_bss[i..], desired so far
RECURSIVE Tournament(_, _, _, _, _, _)
Tournament(plan, cells, user, close, i, desired) ==
    IF i > Len(close) THEN desired
    ELSE Tournament(plan, cells, user, close, i + 1,
                    IF Stronger(PowerAt(plan, cells[close[i]], user),
                                PowerAt(plan, cells[desired], user))
                    THEN close[i] ELSE desired)

\* Plan.connect_users from user u on. st = [cells, users, err]
RECURSIVE ConnectFrom(_, _, _)
ConnectFrom(plan, u, st) ==
    IF u > Len(st.users) THEN st
    ELSE LET user == st.users[u]
             found == CloseCells(st.cells, user, 1, <<>>)
             close == found.close_bss
         IN IF found.err # NoError
            THEN [st EXCEPT !.users[u].close_bss = close, !.err = found.err]
            ELSE IF close = <<>>
            THEN ConnectFrom(plan, u + 1, [st EXCEPT !.users[u].close_bss = close])
            ELSE LET desired == Tournament(plan, st.cells, user, close, 2, close[1])
                 IN ConnectFrom(plan, u + 1,
                        [st EXCEPT !.users[u].close_bss = close,
                                   !.users[u].connected_bs = desired,
                                   !.cells[desired].connected_users =
                                       Append(st.cells[desired].connected_users, u)])

\* Plan.connect_users
connect_users(plan) ==
    ConnectFrom(plan, 1, [cells |-> get_cells(plan, "all"), users |-> plan.users,
                          err |-> NoError])

\* Cell.check_if_needed line 170, for a cell with a minimum
BelowFloor(cell) == Len(cell.connected_users) < cell.min_users

\* Cell.check_if_needed on cell k: below its minimum the cell is turned off,
\* its users lose their serving cell and its list is emptied; a minimum of
\* None raises TypeError
check_if_needed(st, k) ==
    LET cell == st.cells[k]
    IN IF cell.min_users = None THEN [st EXCEPT !.err = "TypeError"]
       ELSE IF BelowFloor(cell)
       THEN [st EXCEPT !.cells[k].state = FALSE,
                       !.cells[k].connected_users = <<>>,
                       !.users = [v \in 1..Len(st.users) |->
                                     IF v \in Range(cell.connected_users)
                                     THEN [st.users[v] EXCEPT !.connected_bs = None]
                                     ELSE st.users[v]]]
       ELSE st

\* Plan.disconnect_unneeded_cells from cell k on
RECURSIVE DisconnectFrom(_, _)
DisconnectFrom(st, k) ==
    IF k > Len(st.cells) THEN st
    ELSE LET nx == check_if_needed(st, k)
         IN IF nx.err # NoError THEN nx ELSE DisconnectFrom(nx, k + 1)

disconnect_unneeded_cells(st) == DisconnectFrom(st, 1)

\* User.is_connected
is_connected(user) == user.connected_bs # None

\* Plan.calculate_connected_users
calculate_connected_users(users) ==
    Cardinality({v \in 1..Len(users) : is_connected(users[v])})

\* Plan.calculate_cost
RECURSIVE calculate_cost(_)
calculate_cost(cells) ==
    IF cells = <<>> THEN 0
    ELSE (IF cells[1].state THEN cells[1].cost ELSE 0) + calculate_cost(Tail(cells))

\* Plan.operate: the plan it leaves, the exception it raised and the step that
\* raised it
operate(plan) ==
    LET c == connect_users(plan)
        d == disconnect_unneeded_cells(c)
        left(st) == [WithCells(plan, st.cells) EXCEPT !.users = st.users]
        cost == calculate_cost(d.cells)
    IN IF c.err # NoError
       THEN [plan |-> left(c), err |-> c.err, step |-> "connect_users"]
       ELSE IF d.err # NoError
       THEN [plan |-> left(d), err |-> d.err, step |-> "disconnect_unneeded_cells"]
       ELSE [plan |-> [left(d) EXCEPT !.connected_users = calculate_connected_users(d.users),
                                      !.cost = cost,
                                      !.fitness = cost],
             err |-> NoError, step |-> "done"]

-----------------------------------------------------------------------------
(* Crossover.  The random draws of a call are its choices: for each pair of
   children the two parents drawn from the pool and one random number per
   non-fixed cell of the first parent, in units of 1/(MaxDraw + 1). *)

\* sa_crossover(cell1, cell2, alpha): both positions become the blend of the
\* two, alpha of the cell's own and 1 - alpha of the other's
sa_crossover(cell1, cell2, alpha) ==
    <<[cell1 EXCEPT !.xcoord = alpha * cell1.xcoord + (1 - alpha) * cell2.xcoord,
                    !.ycoord = alpha * cell1.ycoord + (1 - alpha) * cell2.ycoord],
      [cell2 EXCEPT !.xcoord = alpha * cell2.xcoord + (1 - alpha) * cell1.xcoord,
                    !.ycoord = alpha * cell2.ycoord + (1 - alpha) * cell1.ycoord]>>

\* line 24 with the comparison turned round: cells recombine when the draw is
\* at or above the probability
ShouldCrossInverted(random_number, crossover_probabilty) ==
    random_number >= crossover_probabilty

\* crossover.py line 24
ShouldCross(random_number, crossover_probabilty) ==
    random_number <= crossover_probabilty

\* copy.deepcopy(parent): the reference to a new object, which Children puts on
\* the heap at that place with the parent's value; slot is 1 or 2, for child1
\* and child2
DeepCopy(heap_size, parent, slot) == heap_size + slot

\* the plan with the i-th of its non-fixed cells replaced
SetNonFixed(plan, i, cell) ==
    WithCells(plan, plan.fixed_macro_cells
                        \o [get_cells(plan, "non_fixed") EXCEPT ![i] = cell])

\* crossover.py lines 26-28 on the cells cell1 and cell2 at index i of the two
\* children: both are written, child1's first
Recombined(st, i, child1, child2, cell1, cell2, alpha) ==
    [st EXCEPT !.heap = [[st.heap EXCEPT ![child1] =
                             SetNonFixed(@, i, sa_crossover(cell1, cell2, alpha)[1])]
                         EXCEPT ![child2] =
                             SetNonFixed(@, i, sa_crossover(cell1, cell2, alpha)[2])],
               !.applied = Append(st.applied,
                                  <<Len(st.new_pool) \div 2 + 1, i,
                                    cell1.cell_type, cell2.cell_type>>)]

\* crossover.py lines 23-30 at index i: indexing the non-fixed cells of child2
\* past their end raises IndexError
RecombineAt(st, i, child1, child2, random_number, crossover_probabilty, crossover_method, alpha) ==
    IF /\ ShouldCross(random_number, crossover_probabilty)
       /\ crossover_method = "simple_arithmetic"
    THEN IF i > Len(get_cells(st.heap[child2], "non_fixed"))
         THEN [st EXCEPT !.err = "IndexError"]
         ELSE Recombined(st, i, child1, child2,
                         get_cells(st.heap[child1], "non_fixed")[i],
                         get_cells(st.heap[child2], "non_fixed")[i], alpha)
    ELSE st

\* crossover.py lines 31-35 at index i: printing the i-th non-fixed cell of
\* parent2 raises IndexError past their end
PrintAt(st, i, parent2) ==
    IF st.err = NoError /\ i > Len(get_cells(st.heap[parent2], "non_fixed"))
    THEN [st EXCEPT !.err = "IndexError"]
    ELSE st

\* crossover.py lines 21-35 from index i on. The Plans are objects on a heap,
\* the pool its first entries; st = [heap, new_pool, applied, err] with the
\* recombinations applied so far (the pair of children, the index and the types
\* of the two cells)
RECURSIVE CrossFrom(_, _, _, _, _, _, _, _, _, _)
CrossFrom(st, i, parent1, parent2, child1, child2, random_numbers, crossover_probabilty, crossover_method, alpha) ==
    IF st.err # NoError \/ i > Len(get_cells(st.heap[parent1], "non_fixed")) THEN st
    ELSE CrossFrom(PrintAt(RecombineAt(st, i, child1, child2, random_numbers[i],
                                       crossover_probabilty, crossover_method, alpha),
                           i, parent2),
                   i + 1, parent1, parent2, child1, child2, random_numbers,
                   crossover_probabilty, crossover_method, alpha)

\* crossover.py lines 36-37: the children join new_pool
AppendChildren(st, child1, child2) ==
    IF st.err # NoError THEN st
    ELSE [st EXCEPT !.new_pool = st.new_pool \o <<child1, child2>>]

\* crossover.py lines 15-37: one pair of children
Children(st, choice, child1, child2, crossover_probabilty, crossover_method, alpha) ==
    AppendChildren(
        CrossFrom([st EXCEPT !.heap = [k \in 1..(Len(st.heap) + 2) |->
                                          IF k = child1 THEN st.heap[choice.parent1]
                                          ELSE IF k = child2 THEN st.heap[choice.parent2]
                                          ELSE st.heap[k]]],
                  1, choice.parent1, choice.parent2, child1, child2,
                  choice.random_numbers, crossover_probabilty, crossover_method, alpha),
        child1, child2)

\* crossover.py lines 14-37 from child pair k on
RECURSIVE CrossoverFrom(_, _, _, _, _, _)
CrossoverFrom(st, k, choices, crossover_probabilty, crossover_method, alpha) ==
    IF st.err # NoError \/ k > Len(choices) THEN st
    ELSE CrossoverFrom(Children(st, choices[k],
                                DeepCopy(Len(st.heap), choices[k].parent1, 1),
                                DeepCopy(Len(st.heap), choices[k].parent2, 2),
                                crossover_probabilty, crossover_method, alpha),
                       k + 1, choices, crossover_probabilty, crossover_method, alpha)

\* what a crossover call leaves: the pool it was given, the pool it returns, the
\* number of pairs of parents it drew, the recombinations it applied and the
\* exception it raised
Outcome(st, pool_size) ==
    [pool |-> SubSeq(st.heap, 1, pool_size),
     drawn |-> (Len(st.heap) - pool_size) \div 2,
     new_pool |-> [k \in 1..Len(st.new_pool) |-> st.heap[st.new_pool[k]]],
     applied |-> st.applied,
     err |-> st.err]

\* crossover(pool, crossover_probabilty, crosspoints, crossover_method, alpha)
\* under the draws choices
crossover(the_pool, crossover_probabilty, crossover_method, alpha, choices) ==
    Outcome(CrossoverFrom([heap |-> the_pool, new_pool |-> <<>>,
                           applied |-> <<>>, err |-> NoError],
                          1, choices, crossover_probabilty, crossover_method, alpha),
            Len(the_pool))

-----------------------------------------------------------------------------
(* generate_initial_population *)

\* lines 111-130: the outcomes of one iteration of the loop, one per outcome of
\* the shuffles; an exception of generate_cells ends the call
PlanOutcomes(candidate_points, users, num_macro, distance_macro, num_micro, distance_micro) ==
    UNION {
      LET macro == generate_cells(s1, "macro", distance_macro, num_macro)
      IN IF macro.err # NoError
         THEN {[plan |-> None, err |-> macro.err]}
         ELSE { LET micro == generate_cells(s2, "micro", distance_micro, num_micro)
                IN IF micro.err # NoError
                   THEN [plan |-> None, err |-> micro.err]
                   ELSE [plan |-> Plan(macro.cell_list \o micro.cell_list, users,
                                       micro.candidate_points_list,
                                       num_macro, num_micro, None, None, None),
                         err |-> NoError]
                : s2 \in Shuffles(macro.candidate_points_list) }
      : s1 \in Shuffles(candidate_points) }

\* lines 109-135: the outcomes of the whole call
RECURSIVE generate_initial_population(_, _, _, _, _, _, _)
generate_initial_population(num_of_plans, candidate_points, users, num_macro, distance_macro, num_micro, distance_micro) ==
    IF num_of_plans = 0 THEN {[pool |-> <<>>, err |-> NoError]}
    ELSE LET before == generate_initial_population(num_of_plans - 1, candidate_points,
                           users, num_macro, distance_macro, num_micro, distance_micro)
             one == PlanOutcomes(candidate_points, users, num_macro, distance_macro,
                                 num_micro, distance_micro)
         IN UNION {
              IF b.err # NoError THEN {b}
              ELSE { IF o.err # NoError THEN [pool |-> <<>>, err |-> o.err]
                     ELSE [pool |-> Append(b.pool, o.plan), err |-> NoError]
                     : o \in one }
              : b \in before }

-----------------------------------------------------------------------------
(* The generator calls under test *)

Points == (0..MaxCoord) \X (0..MaxCoord)

Rank(p) == p[1] * (MaxCoord + 1) + p[2]

\* np.random.shuffle is the first statement of generate_cells and of every
\* iteration of generate_initial_population, so an input list is taken up to
\* the order of its points: the lists in ascending order stand for all
PointLists ==
    {s \in UNION {[1..n -> Points] : n \in 0..MaxPoints} :
        \A i \in 1..(Len(s) - 1) : Rank(s[i]) <= Rank(s[i + 1])}

MasterUsers == <<User(0, 0), User(2, 2)>>

Idle == [called |-> FALSE]

GenInit ==
    /\ gin \in [candidate_points : PointLists,
                distance : 0..MaxSep,
                num : 0..MaxNum]
    /\ gout = Idle
    /\ popout = Idle
    /\ pool = <<>>
    /\ new_pool = <<>>
    /\ xlog = Idle
    /\ olog = Idle
    /\ generation = 0

\* one call generate_cells(candidate_points, type, distance, num)
GenerateCells ==
    /\ ~gout.called /\ ~popout.called
    /\ \E shuffled \in Shuffles(gin.candidate_points), type_of_cell \in {"macro", "micro"} :
         LET r == generate_cells(shuffled, type_of_cell, gin.distance, gin.num)
         IN gout' = [called |-> TRUE, shuffled |-> shuffled, type_of_cell |-> type_of_cell,
                     cell_list |-> r.cell_list,
                     candidate_points_list |-> r.candidate_points_list,
                     accepted |-> r.accepted, err |-> r.err]
    /\ UNCHANGED <<gin, popout, pool, new_pool, xlog, olog, generation>>

\* one call generate_initial_population(num_of_plans, candidate_points, users,
\* num, distance, num_micro, distance)
GenerateInitialPopulation ==
    /\ ~gout.called /\ ~popout.called
    /\ \E num_of_plans \in 1..2, num_micro \in 0..MaxNum :
         \E r \in generate_initial_population(num_of_plans, gin.candidate_points,
                      MasterUsers, gin.num, gin.distance, num_micro, gin.distance) :
           popout' = [called |-> TRUE, num_of_plans |-> num_of_plans,
                      num_macro |-> gin.num, num_micro |-> num_micro,
                      pool |-> r.pool, err |-> r.err]
    /\ UNCHANGED <<gin, gout, pool, new_pool, xlog, olog, generation>>

GenNext == GenerateCells \/ GenerateInitialPopulation

SpecGen == GenInit /\ [][GenNext]_vars

-----------------------------------------------------------------------------
(* The pools under evaluation and crossover *)

ThreeUsers == <<User(0, 0), User(1, 1), User(2, 2)>>

\* Plans built by Plan(cell_list, users, candidate_points, counts...): one
\* fixed macro cell, then the generated cells
PlanFMm(users, mx, my, ux, uy) ==
    Plan(<<Cell(2, 2, "fixed_macro"), Cell(mx, my, "macro"), Cell(ux, uy, "micro")>>,
         users, <<>>, 1, 1, 1, None, None)

PlanFM(users, mx, my) ==
    Plan(<<Cell(2, 2, "fixed_macro"), Cell(mx, my, "macro")>>,
         users, <<>>, 1, 1, None, None, None)

PlanFMM(users, mx, my, nx, ny) ==
    Plan(<<Cell(2, 2, "fixed_macro"), Cell(mx, my, "macro"), Cell(nx, ny, "macro")>>,
         users, <<>>, 1, 2, None, None, None)

PlanMm(users, mx, my, ux, uy) ==
    Plan(<<Cell(mx, my, "macro"), Cell(ux, uy, "micro")>>,
         users, <<>>, 0, 1, 1, None, None)

PlanMp(users, mx, my, px, py) ==
    Plan(<<Cell(mx, my, "macro"), Cell(px, py, "pico")>>,
         users, <<>>, 0, 1, None, 1, None)

HandBuiltPools ==
    { <<PlanFMm(ThreeUsers, 0, 0, 1, 1), PlanFMm(ThreeUsers, 0, 2, 2, 1)>>,
      <<PlanMm(ThreeUsers, 0, 0, 1, 1), PlanMm(ThreeUsers, 2, 0, 1, 2)>>,
      <<PlanFMm(ThreeUsers, 0, 0, 1, 1), PlanFM(ThreeUsers, 0, 2)>>,
      <<PlanFMm(ThreeUsers, 0, 0, 1, 1), PlanFMM(ThreeUsers, 0, 2, 2, 0)>>,
      <<PlanMp(<<>>, 0, 0, 1, 1), PlanMp(<<>>, 2, 0, 1, 2)>>,
      <<PlanMp(ThreeUsers, 0, 0, 1, 1), PlanMp(ThreeUsers, 2, 0, 1, 2)>> }

\* The pools generate_initial_population(2, points, users, 2, 1, 1, 1) returns
MasterPoints == <<<<0, 0>>, <<0, 2>>, <<2, 0>>>>

GeneratedPools ==
    { r.pool : r \in { o \in generate_initial_population(2, MasterPoints, MasterUsers,
                                                         2, 1, 1, 1) :
                          o.err = NoError } }

Init ==
    /\ pool \in HandBuiltPools \cup GeneratedPools
    /\ new_pool = <<>>
    /\ xlog = Idle
    /\ olog = Idle
    /\ generation = 0
    /\ gin = Idle
    /\ gout = Idle
    /\ popout = Idle

\* no call has raised: an exception is caught nowhere and ends the run
Running ==
    /\ olog.called => olog.err = NoError
    /\ xlog.called => xlog.err = NoError

\* plan.operate() on the p-th Plan of the pool; the generational loop evaluates
\* the Plans of a generation before it recombines them
Operate(p) ==
    /\ Running
    /\ ~xlog.called
    /\ p \in 1..Len(pool)
    /\ \E r \in {operate(pool[p])} :
          /\ pool' = [pool EXCEPT ![p] = r.plan]
          /\ olog' = [called |-> TRUE, plan |-> p, err |-> r.err, step |-> r.step]
    /\ UNCHANGED <<new_pool, xlog, generation, gin, gout, popout>>

\* the random draws a crossover call on the_pool can make
Choices(the_pool) ==
    LET one == UNION { [parent1 : {p1}, parent2 : 1..Len(the_pool),
                        random_numbers :
                            [1..Len(get_cells(the_pool[p1], "non_fixed")) -> 0..MaxDraw]]
                       : p1 \in 1..Len(the_pool) }
    IN [1..(Len(the_pool) \div 2) -> one]

\* new_pool = crossover(pool, crossover_probabilty, crosspoints, method, alpha);
\* alpha is an end point of [0, 1], which keeps the coordinates integers
Crossover ==
    /\ Running
    /\ ~xlog.called
    /\ generation < MaxGenerations
    /\ pool # <<>>
    /\ \E crossover_probabilty \in 0..MaxDraw, alpha \in {0, 1},
          crossover_method \in {"simple_arithmetic", "uniform"},
          choices \in Choices(pool) :
         \E r \in {crossover(pool, crossover_probabilty, crossover_method, alpha, choices)} :
            /\ pool' = r.pool
            /\ new_pool' = IF r.err = NoError THEN r.new_pool ELSE new_pool
            /\ xlog' = [called |-> TRUE, choices |-> choices,
                        crossover_probabilty |-> crossover_probabilty,
                        drawn |-> r.drawn, applied |-> r.applied, err |-> r.err]
    /\ generation' = generation + 1
    /\ UNCHANGED <<olog, gin, gout, popout>>

\* the generational loop takes the crossover's pool as the next generation
NextGeneration ==
    /\ Running
    /\ xlog.called
    /\ pool' = new_pool
    /\ new_pool' = <<>>
    /\ xlog' = Idle
    /\ olog' = Idle
    /\ UNCHANGED <<generation, gin, gout, popout>>

Next ==
    \/ \E p \in 1..Len(pool) : Operate(p)
    \/ Crossover
    \/ NextGeneration

Spec == Init /\ [][Next]_vars

-----------------------------------------------------------------------------
(* Claims about the generators, checked under SpecGen *)

\* the call generate_cells returned (it raised nothing)
Returned == gout.called /\ gout.err = NoError

\* C1: every pair of distinct cells returned by generate_cells is at planar
\* distance >= the minimum separation.
C1_MinSeparation ==
    Returned =>
        \A i, j \in 1..Len(gout.cell_list) :
            i # j => ~DistanceLess(gout.cell_list[i].xcoord, gout.cell_list[i].ycoord,
                                   gout.cell_list[j].xcoord, gout.cell_list[j].ycoord,
                                   gin.distance)

\* C2: for a non-empty candidate-point list and a target count >= 1,
\* generate_cells returns at most the target count of cells.
C2_AtMostTarget ==
    (Returned /\ gin.candidate_points # <<>> /\ gin.num >= 1)
        => Len(gout.cell_list) <= gin.num

\* C3: every Plan returned by generate_initial_population has an empty
\* fixed-macro group, only "macro" cells in its macro group and only "micro"
\* cells in its micro group, the two groups of sizes num_macro and num_micro.
C3_GroupsByType ==
    (popout.called /\ popout.err = NoError) =>
        \A p \in 1..Len(popout.pool) :
            LET plan == popout.pool[p]
            IN /\ plan.fixed_macro_cells = <<>>
               /\ \A c \in Range(plan.macro_cells) : c.cell_type = "macro"
               /\ \A c \in Range(plan.micro_cells) : c.cell_type = "micro"
               /\ Len(plan.macro_cells) = popout.num_macro
               /\ Len(plan.micro_cells) = popout.num_micro
               /\ \A c \in Range(get_cells(plan, "non_fixed")) :
                      c.cell_type \in {"macro", "micro"}

\* the points of s at the positions not in the set taken, in order
RECURSIVE Without(_, _)
Without(s, taken) ==
    IF s = <<>> THEN <<>>
    ELSE LET rest == Without(SubSeq(s, 1, Len(s) - 1), taken)
         IN IF Len(s) \in taken THEN rest ELSE Append(rest, s[Len(s)])

\* C10: generate_cells takes one occurrence of an input point per cell and
\* nothing else: no position of the shuffled list (the seed's included) is
\* accepted twice, each cell sits on the point of its position, and on return
\* the caller's list is the shuffled list without the accepted positions, so
\* that len(caller list) + len(cells) = len(input).
C10_OneOccurrencePerCell ==
    gout.called =>
        /\ \A i, j \in 1..Len(gout.accepted) :
               i # j => gout.accepted[i] # gout.accepted[j]
        /\ gout.err = NoError =>
               /\ Len(gout.candidate_points_list) + Len(gout.cell_list)
                      = Len(gin.candidate_points)
               /\ Len(gout.accepted) = Len(gout.cell_list)
               /\ \A k \in 1..Len(gout.cell_list) :
                      <<gout.cell_list[k].xcoord, gout.cell_list[k].ycoord>>
                          = gout.shuffled[gout.accepted[k]]
               /\ gout.candidate_points_list
                      = Without(gout.shuffled, Range(gout.accepted))

-----------------------------------------------------------------------------
(* Claims about evaluation and crossover, checked under Spec *)

\* the last operate call got through connect_users
Connected == olog.called /\ olog.step # "connect_users"

\* the last operate call completed
Operated == olog.called /\ olog.err = NoError

\* the Plan the last operate call was made on
Evaluated == pool[olog.plan]

\* the cell's type has no minimum-users floor
Floorless(cell) == cell.min_users = None

\* C4: after connect_users every connected user's serving cell is one of the
\* cells that were in range and available when the user was processed (the
\* user's close cells of this call), it has the user strictly within its
\* radius, no close cell has a strictly greater received power, and every
\* close cell enumerated before it has a strictly smaller one.
C4_ServingCellIsBestCandidate ==
    Connected =>
        \A u \in 1..Len(Evaluated.users) :
            LET user == Evaluated.users[u]
                cells == get_cells(Evaluated, "all")
                at == Index(user.close_bss, user.connected_bs)
            IN is_connected(user) =>
                   /\ at # 0
                   /\ WithinRadius(user, cells[user.connected_bs])
                   /\ \A j \in 1..Len(user.close_bss) :
                          /\ PowerAt(Evaluated, cells[user.close_bss[j]], user)
                                 <= PowerAt(Evaluated, cells[user.connected_bs], user)
                          /\ j < at =>
                                 PowerAt(Evaluated, cells[user.close_bss[j]], user)
                                     < PowerAt(Evaluated, cells[user.connected_bs], user)

\* C5: after every completed operate call every active cell with a minimum
\* has at least that many connected users and every deactivated cell has none.
C5_FloorAfterOperate ==
    Operated =>
        \A c \in Range(get_cells(Evaluated, "all")) :
            /\ (c.state /\ ~Floorless(c)) => Len(c.connected_users) >= c.min_users
            /\ ~c.state => c.connected_users = <<>>

\* C6: every cell in the fixed-macro group of every Plan is active, in the pool
\* and in the pool crossover returned.
C6_FixedMacroActive ==
    \A plan \in Range(pool) \cup Range(new_pool) :
        \A c \in Range(plan.fixed_macro_cells) : c.state

\* C7: when operate reaches disconnect_unneeded_cells on a Plan with a cell
\* that has no minimum, the call completes with no exception and leaves that
\* cell active.
C7_NoFloorNeverDeactivates ==
    (Connected /\ \E c \in Range(get_cells(Evaluated, "all")) : Floorless(c)) =>
        /\ olog.err = NoError
        /\ \A c \in Range(get_cells(Evaluated, "all")) : Floorless(c) => c.state

\* the types of the non-fixed cells of a Plan, in order
Genome(plan) ==
    [i \in 1..Len(get_cells(plan, "non_fixed")) |->
        get_cells(plan, "non_fixed")[i].cell_type]

\* the k-th pair of parents of the last crossover call differ in the count or
\* the type ordering of their non-fixed cells
Mismatched(k) ==
    Genome(pool[xlog.choices[k].parent1]) # Genome(pool[xlog.choices[k].parent2])

\* C8: a crossover call that draws two parents with different genomes raises
\* an error and recombines no cell of that pair.
C8_MismatchFailsFast ==
    xlog.called =>
        \A k \in 1..xlog.drawn :
            Mismatched(k) =>
                /\ xlog.err # NoError
                /\ \A n \in 1..Len(xlog.applied) : xlog.applied[n][1] # k

\* the position of a cell
Position(cell) == <<cell.xcoord, cell.ycoord>>

\* the child keeps the position of every non-fixed cell of its parent whose
\* draw exceeded the crossover probability, and its parent's fixed-macro cells
Kept(child, parent, random_numbers, crossover_probabilty) ==
    /\ \A i \in 1..Len(random_numbers) :
           (i <= Len(get_cells(child, "non_fixed"))
              /\ random_numbers[i] > crossover_probabilty)
           => Position(get_cells(child, "non_fixed")[i])
                  = Position(get_cells(parent, "non_fixed")[i])
    /\ child.fixed_macro_cells = parent.fixed_macro_cells

\* C9: a crossover call leaves the Plans of its pool as they were, and in the
\* pool it returns each child has the position of its source parent at every
\* non-fixed index whose draw is greater than the crossover probability and
\* has its source parent's fixed-macro cells.
C9_CrossoverFrame ==
    [][generation' = generation + 1 =>
          /\ pool' = pool
          /\ xlog'.err = NoError =>
                 \A k \in 1..Len(xlog'.choices) :
                     /\ Kept(new_pool'[2 * k - 1], pool[xlog'.choices[k].parent1],
                             xlog'.choices[k].random_numbers,
                             xlog'.crossover_probabilty)
                     /\ Kept(new_pool'[2 * k], pool[xlog'.choices[k].parent2],
                             xlog'.choices[k].random_numbers,
                             xlog'.crossover_probabilty)]_vars

\* a returned pair of children with a fixed-macro cell, one index recombined
\* to a new position and one index whose draw exceeded the probability
C9_Witness ==
    /\ xlog.called /\ xlog.err = NoError
    /\ new_pool # <<>>
    /\ new_pool[1].fixed_macro_cells # <<>>
    /\ \E i, j \in 1..Len(xlog.choices[1].random_numbers) :
           /\ xlog.choices[1].random_numbers[i] > xlog.crossover_probabilty
           /\ xlog.choices[1].random_numbers[j] <= xlog.crossover_probabilty
           /\ Position(get_cells(new_pool[1], "non_fixed")[j])
                  # Position(get_cells(pool[xlog.choices[1].parent1], "non_fixed")[j])

-----------------------------------------------------------------------------
(* User-to-cell bookkeeping, checked under Spec *)

\* how many times user u is in a cell's connected-user list
Occurrences(cell, u) ==
    Cardinality({n \in 1..Len(cell.connected_users) : cell.connected_users[n] = u})

\* the sum of the cells' connected-user counts
RECURSIVE SumConnected(_)
SumConnected(cells) ==
    IF cells = <<>> THEN 0
    ELSE Len(cells[1].connected_users) + SumConnected(Tail(cells))

\* C11: after every completed operate call a user's serving cell is cell c if
\* and only if the user is exactly once in c's connected-user list, no user is
\* in the connected-user list of two cells, and the Plan's connected-user count
\* is the sum of the cells' connected-user counts.
C11_BookkeepingConsistent ==
    Operated =>
        LET cells == get_cells(Evaluated, "all")
        IN /\ \A u \in 1..Len(Evaluated.users) : \A c \in 1..Len(cells) :
                  Evaluated.users[u].connected_bs = c <=> Occurrences(cells[c], u) = 1
           /\ \A u \in 1..Len(Evaluated.users) : \A c, d \in 1..Len(cells) :
                  (Occurrences(cells[c], u) > 0 /\ Occurrences(cells[d], u) > 0) => c = d
           /\ Evaluated.connected_users = SumConnected(cells)

====
